---- MODULE Spec2Model ----
(***************************************************************************)
(* CxxUrl::Url (src/url.hpp): a URL kept both as a raw string (m_url) and  *)
(* as a set of decoded fields, with two freshness flags (m_parse: the      *)
(* fields are current, m_built: the raw string is current).                *)
(*                                                                         *)
(* The inline members of url.hpp are translated from the header.  The      *)
(* out-of-line members parse_url(), build_url(), port(std::string) and     *)
(* the two assign() are only declared there; they are modelled from        *)
(* sections 3 and 4.1-4.4 of the specification.                            *)
(*                                                                         *)
(* A std::string is a sequence of one-character strings.                   *)
(***************************************************************************)
EXTENDS Integers, Sequences, FiniteSets, TLC

\***************************************************************************
\* Characters
\***************************************************************************

LOWER == {"a", "b", "c", "d", "e", "f", "h", "k", "p", "q", "v", "z"}

UPPER == {"A", "B", "C", "D", "E", "F"}

DIGIT == {"0", "1", "2", "3", "4", "5", "6", "7", "8", "9"}

ALPHA == LOWER \cup UPPER

HEXDIG == DIGIT \cup {"a", "b", "c", "d", "e", "f"} \cup UPPER

UNRESERVED == ALPHA \cup DIGIT \cup {"-", ".", "_", "~"}

SUBDELIMS == {"!", "$", "&", "'", "(", ")", "*", "+", ",", ";", "="}

\* The byte value of every character the model uses.
Ord ==
    [c \in {"a"} |-> 97] @@ [c \in {"b"} |-> 98] @@ [c \in {"c"} |-> 99] @@
    [c \in {"d"} |-> 100] @@ [c \in {"e"} |-> 101] @@ [c \in {"f"} |-> 102] @@
    [c \in {"h"} |-> 104] @@ [c \in {"k"} |-> 107] @@ [c \in {"p"} |-> 112] @@
    [c \in {"q"} |-> 113] @@ [c \in {"v"} |-> 118] @@ [c \in {"z"} |-> 122] @@
    [c \in {"A"} |-> 65] @@ [c \in {"B"} |-> 66] @@ [c \in {"C"} |-> 67] @@
    [c \in {"D"} |-> 68] @@ [c \in {"E"} |-> 69] @@ [c \in {"F"} |-> 70] @@
    [c \in {"0"} |-> 48] @@ [c \in {"1"} |-> 49] @@ [c \in {"2"} |-> 50] @@
    [c \in {"3"} |-> 51] @@ [c \in {"4"} |-> 52] @@ [c \in {"5"} |-> 53] @@
    [c \in {"6"} |-> 54] @@ [c \in {"7"} |-> 55] @@ [c \in {"8"} |-> 56] @@
    [c \in {"9"} |-> 57] @@
    [c \in {"-"} |-> 45] @@ [c \in {"."} |-> 46] @@ [c \in {"_"} |-> 95] @@
    [c \in {"~"} |-> 126] @@ [c \in {"!"} |-> 33] @@ [c \in {"$"} |-> 36] @@
    [c \in {"&"} |-> 38] @@ [c \in {"'"} |-> 39] @@ [c \in {"("} |-> 40] @@
    [c \in {")"} |-> 41] @@ [c \in {"*"} |-> 42] @@ [c \in {"+"} |-> 43] @@
    [c \in {","} |-> 44] @@ [c \in {";"} |-> 59] @@ [c \in {"="} |-> 61] @@
    [c \in {":"} |-> 58] @@ [c \in {"/"} |-> 47] @@ [c \in {"?"} |-> 63] @@
    [c \in {"#"} |-> 35] @@ [c \in {"["} |-> 91] @@ [c \in {"]"} |-> 93] @@
    [c \in {"@"} |-> 64] @@ [c \in {"%"} |-> 37] @@ [c \in {" "} |-> 32]

\* The character of a byte value.
Chr(n) == CHOOSE c \in DOMAIN Ord : Ord[c] = n

\* The value of a hexadecimal digit (either case).
HexVal(c) ==
    IF c \in DIGIT THEN Ord[c] - Ord["0"]
    ELSE IF c \in UPPER THEN Ord[c] - Ord["A"] + 10
    ELSE Ord[c] - Ord["a"] + 10

\* The upper-case hexadecimal digit of a value 0..15.
HexChar(n) == IF n < 10 THEN Chr(Ord["0"] + n) ELSE Chr(Ord["A"] + n - 10)

\***************************************************************************
\* String helpers
\***************************************************************************

Min(S) == CHOOSE x \in S : \A y \in S : x <= y

Max(S) == CHOOSE x \in S : \A y \in S : y <= x

\* Index of the first character of s at or after from that is in cs,
\* Len(s) + 1 when there is none.
Find(s, cs, from) ==
    LET I == {i \in from..Len(s) : s[i] \in cs}
    IN  IF I = {} THEN Len(s) + 1 ELSE Min(I)

\* Index of the last character of s that is in cs, 0 when there is none.
FindLast(s, cs) ==
    LET I == {i \in 1..Len(s) : s[i] \in cs}
    IN  IF I = {} THEN 0 ELSE Max(I)

\* The characters i..j of s (empty when i > j).
Sub(s, i, j) == IF i > j THEN <<>> ELSE SubSeq(s, i, j)

RECURSIVE Split(_, _)
\* s cut at every occurrence of sep.
Split(s, sep) ==
    LET i == Find(s, {sep}, 1)
    IN  IF i > Len(s) THEN <<s>>
        ELSE <<Sub(s, 1, i - 1)>> \o Split(Sub(s, i + 1, Len(s)), sep)

RECURSIVE DecVal(_)
\* The value of a string of decimal digits.
DecVal(s) ==
    IF s = <<>> THEN 0
    ELSE 10 * DecVal(Sub(s, 1, Len(s) - 1)) + (Ord[s[Len(s)]] - Ord["0"])

AllIn(s, cs) == \A i \in 1..Len(s) : s[i] \in cs

\***************************************************************************
\* Encoder / Decoder (specification 4.4)
\***************************************************************************

\* Every '%' is followed by two hexadecimal digits.
pct_valid(s) ==
    \A i \in 1..Len(s) :
        s[i] = "%" => /\ i + 2 <= Len(s)
                      /\ s[i + 1] \in HEXDIG
                      /\ s[i + 2] \in HEXDIG

RECURSIVE pct_decode_from(_, _)
pct_decode_from(s, i) ==
    IF i > Len(s) THEN <<>>
    ELSE IF s[i] = "%"
         THEN <<Chr(16 * HexVal(s[i + 1]) + HexVal(s[i + 2]))>>
                  \o pct_decode_from(s, i + 3)
         ELSE <<s[i]>> \o pct_decode_from(s, i + 1)

\* "%XX" -> one byte (s must be pct_valid).
pct_decode(s) == pct_decode_from(s, 1)

RECURSIVE pct_encode(_, _)
\* Every byte outside the allow-list becomes "%" and two upper-case digits.
pct_encode(s, allowed) ==
    IF s = <<>> THEN <<>>
    ELSE LET c == Head(s)
         IN  (IF c \in allowed THEN <<c>>
              ELSE <<"%", HexChar(Ord[c] \div 16), HexChar(Ord[c] % 16)>>)
                  \o pct_encode(Tail(s), allowed)

UserAllowed == UNRESERVED \cup SUBDELIMS \cup {":"}

HostAllowed == UNRESERVED \cup SUBDELIMS \cup {":"}

PathAllowed == UNRESERVED \cup SUBDELIMS \cup {"/", ":", "@"}

QueryAllowed == UNRESERVED \cup (SUBDELIMS \ {"&", "="}) \cup {"/", "?"}

FragmentAllowed == UNRESERVED \cup SUBDELIMS \cup {"/", "?"}

\***************************************************************************
\* Host classifier (specification 4.2 step 3, 4.5)
\***************************************************************************

\* One decimal octet: 1..3 digits, 0..255, no leading zero on a non-zero value.
is_octet(s) ==
    /\ Len(s) \in 1..3
    /\ AllIn(s, DIGIT)
    /\ DecVal(s) <= 255
    /\ (Len(s) > 1 => s[1] # "0")

is_ipv4(s) ==
    LET parts == Split(s, ".")
    IN  /\ Len(parts) = 4
        /\ \A i \in 1..4 : is_octet(parts[i])

\* Eight colon-separated hextets with at most one "::" run.
is_ipv6(s) ==
    LET parts  == Split(s, ":")
        runs   == {i \in 1..(Len(s) - 1) : s[i] = ":" /\ s[i + 1] = ":"}
        filled == {i \in 1..Len(parts) : parts[i] # <<>>}
    IN  /\ s # <<>>
        /\ \A i \in filled : Len(parts[i]) <= 4 /\ AllIn(parts[i], HEXDIG)
        /\ Cardinality(runs) <= 1
        /\ IF runs = {}
           THEN Len(parts) = 8 /\ Cardinality(filled) = 8
           ELSE /\ Cardinality(filled) <= 7
                /\ (s[1] = ":" => s[2] = ":")
                /\ (s[Len(s)] = ":" => s[Len(s) - 1] = ":")

\***************************************************************************
\* Parser: raw string -> field set (specification 4.2)
\***************************************************************************

\* ALPHA (ALPHA | DIGIT | '+' | '-' | '.')*
is_scheme(s) ==
    /\ s # <<>>
    /\ s[1] \in ALPHA
    /\ AllIn(s, ALPHA \cup DIGIT \cup {"+", "-", "."})

\* All-decimal digits with a value of at most 65535; empty is allowed.
is_port(s) == AllIn(s, DIGIT) /\ DecVal(s) <= 65535

\* One query token: split at its first '=' (the value is empty when there is
\* no '='; KeyVal of url.hpp holds two strings and nothing else).
parse_token(tok) ==
    LET eq == Find(tok, {"="}, 1)
    IN  [m_key |-> pct_decode(Sub(tok, 1, eq - 1)),
         m_val |-> pct_decode(Sub(tok, eq + 1, Len(tok)))]

\* Step 1: the scheme is the text before a ':' that comes before any of
\* '/', '?', '#'.
split_scheme(s) ==
    LET p == Find(s, {":", "/", "?", "#"}, 1)
    IN  IF p <= Len(s) /\ s[p] = ":"
        THEN [has |-> TRUE, scheme |-> Sub(s, 1, p - 1),
              rest |-> Sub(s, p + 1, Len(s))]
        ELSE [has |-> FALSE, scheme |-> <<>>, rest |-> s]

\* Step 2: the authority follows "//" and runs to the next '/', '?', '#'.
split_authority(r) ==
    LET e == Find(r, {"/", "?", "#"}, 3)
    IN  IF Len(r) >= 2 /\ r[1] = "/" /\ r[2] = "/"
        THEN [auth |-> Sub(r, 3, e - 1), rest |-> Sub(r, e, Len(r))]
        ELSE [auth |-> <<>>, rest |-> r]

\* Step 2: user_info is the text before the last '@' of the authority.
split_user(auth) ==
    LET at == FindLast(auth, {"@"})
    IN  [user |-> Sub(auth, 1, at - 1), hostport |-> Sub(auth, at + 1, Len(auth))]

\* Step 3: host and port part at the last ':' outside the bracket pair.
split_host(hp) ==
    LET bracket == hp # <<>> /\ hp[1] = "["
        close   == Find(hp, {"]"}, 1)
        outside == {i \in 1..Len(hp) : hp[i] = ":" /\ (bracket => i > close)}
        colon   == IF outside = {} THEN 0 ELSE Max(outside)
    IN  [bracket |-> bracket,
         host    |-> IF colon = 0 THEN hp ELSE Sub(hp, 1, colon - 1),
         port    |-> IF colon = 0 THEN <<>> ELSE Sub(hp, colon + 1, Len(hp))]

\* Steps 5-7: the path runs to '?' or '#', the query from '?' to '#', the
\* fragment from '#' to the end.
split_path(r) ==
    LET pe       == Find(r, {"?", "#"}, 1)
        hasQuery == pe <= Len(r) /\ r[pe] = "?"
        qe       == IF hasQuery THEN Find(r, {"#"}, pe + 1) ELSE pe
    IN  [path     |-> Sub(r, 1, pe - 1),
         query    |-> IF hasQuery THEN Sub(r, pe + 1, qe - 1) ELSE <<>>,
         fragment |-> Sub(r, qe + 1, Len(r))]

\* Step 3: a bracketed host must end with ']' and enclose an IPv6 literal;
\* any other host is an IPv4 address or a percent-encoded name.
host_ok(h) ==
    IF h.bracket
    THEN /\ Len(h.host) >= 2
         /\ h.host[Len(h.host)] = "]"
         /\ is_ipv6(Sub(h.host, 2, Len(h.host) - 1))
    ELSE is_ipv4(h.host) \/ pct_valid(h.host)

\* The host text stored: the literal without its brackets, or the decoded name.
host_text(h) ==
    IF h.bracket THEN Sub(h.host, 2, Len(h.host) - 1)
    ELSE IF is_ipv4(h.host) THEN h.host
    ELSE pct_decode(h.host)

\* -1 = undefined, 0 = name, 4 = IPv4, 6 = IPv6.
host_kind(h) ==
    IF h.host = <<>> THEN -1
    ELSE IF h.bracket THEN 6
    ELSE IF is_ipv4(h.host) THEN 4 ELSE 0

\* Step 6: the tokens of the query text.
query_tokens(q) == IF q = <<>> THEN <<>> ELSE Split(q, "&")

\* The components are well-formed.
parts_ok(sc, us, h, pa, tokens) ==
    /\ sc.has => is_scheme(sc.scheme)
    /\ pct_valid(us.user)
    /\ host_ok(h)
    /\ is_port(h.port)
    /\ pct_valid(pa.path)
    /\ \A i \in 1..Len(tokens) : pct_valid(tokens[i])
    /\ pct_valid(pa.fragment)

\* The decoded fields of well-formed components.
parts_fields(sc, us, h, pa, tokens) ==
    IF parts_ok(sc, us, h, pa, tokens)
    THEN [ok       |-> TRUE,
          scheme   |-> sc.scheme,
          user     |-> pct_decode(us.user),
          host     |-> host_text(h),
          ip_v     |-> host_kind(h),
          port     |-> h.port,
          path     |-> pct_decode(pa.path),
          query    |-> [i \in 1..Len(tokens) |-> parse_token(tokens[i])],
          fragment |-> pct_decode(pa.fragment)]
    ELSE [ok |-> FALSE]

parse_from_path(sc, us, h, pa) ==
    parts_fields(sc, us, h, pa, query_tokens(pa.query))

parse_from_user(sc, au, us) ==
    parse_from_path(sc, us, split_host(us.hostport), split_path(au.rest))

parse_from_authority(sc, au) == parse_from_user(sc, au, split_user(au.auth))

parse_from_scheme(sc) == parse_from_authority(sc, split_authority(sc.rest))

\* The result of parsing s: ok, and when ok the decoded fields.
Parser(s) == parse_from_scheme(split_scheme(s))

\***************************************************************************
\* Builder: field set -> raw string (specification 4.3)
\***************************************************************************

\* One query token: the encoded key, and "=" with the encoded value when the
\* entry carries a value (a KeyVal carries one when m_val is not empty).
build_token(kv) ==
    pct_encode(kv.m_key, QueryAllowed)
        \o (IF kv.m_val # <<>>
            THEN <<"=">> \o pct_encode(kv.m_val, QueryAllowed)
            ELSE <<>>)

RECURSIVE build_tokens(_)
\* The tokens of q joined by '&'.
build_tokens(q) ==
    IF q = <<>> THEN <<>>
    ELSE IF Len(q) = 1 THEN build_token(q[1])
    ELSE build_token(q[1]) \o <<"&">> \o build_tokens(Tail(q))

\* The result of building u's fields: ok, and when ok the text.
Builder(u) ==
    LET hasAuth == u.m_host # <<>> \/ u.m_user # <<>>
        ok      == /\ u.m_ip_v = 6 => is_ipv6(u.m_host)
                   /\ u.m_ip_v = 4 => is_ipv4(u.m_host)
                   /\ AllIn(u.m_port, DIGIT) => DecVal(u.m_port) <= 65535
                   /\ ~(hasAuth /\ u.m_path # <<>> /\ u.m_path[1] # "/")
        text    == u.m_scheme
                   \o (IF hasAuth THEN <<":", "/", "/">>
                       ELSE IF u.m_scheme # <<>> THEN <<":">> ELSE <<>>)
                   \o (IF u.m_user # <<>>
                       THEN pct_encode(u.m_user, UserAllowed) \o <<"@">>
                       ELSE <<>>)
                   \o (IF u.m_ip_v = 6 THEN <<"[">> \o u.m_host \o <<"]">>
                       ELSE pct_encode(u.m_host, HostAllowed))
                   \o (IF u.m_port # <<>> THEN <<":">> \o u.m_port ELSE <<>>)
                   \o pct_encode(u.m_path, PathAllowed)
                   \o (IF u.m_query # <<>>
                       THEN <<"?">> \o build_tokens(u.m_query) ELSE <<>>)
                   \o (IF u.m_fragment # <<>>
                       THEN <<"#">> \o pct_encode(u.m_fragment, FragmentAllowed)
                       ELSE <<>>)
    IN  IF ok THEN [ok |-> TRUE, text |-> text] ELSE [ok |-> FALSE]

\***************************************************************************
\* Bounds and inputs
\***************************************************************************

\* The longest query the mutators are allowed to produce.
MaxQuery == 2

\* The strings handed to Url(const std::string&) and parse().
RawInputs ==
    { <<>>,
      <<"h", ":", "/", "/", "b", "/", "p", "%", "2", "f", "q", "?", "k", "=", "%", "3", "1", "#", "f">>,
      <<"%", "z", "z">> }

Keys == {<<"a">>}

Vals == {<<>>, <<"1">>}

\* Url::KeyVal (url.hpp lines 165-212): two strings.
KeyVal(key, val) == [m_key |-> key, m_val |-> val]

KeyVals == {KeyVal(k, v) : k \in Keys, v \in Vals}

\* The vectors handed to set_query(const Query&).
QueryInputs ==
    { <<>>,
      <<KeyVal(<<"a">>, <<"1">>)>>,
      <<KeyVal(<<"k">>, <<>>)>>,
      <<KeyVal(<<"a">>, <<"1">>), KeyVal(<<"a">>, <<"1">>)>> }

\* The indices handed to query(i) and set_query(i), 0-based as in C++.
Indices == 0..MaxQuery

\***************************************************************************
\* The Url object (url.hpp lines 326-336) and its inline members
\***************************************************************************

NoRet == [void |-> TRUE]

\* Url::Url()
Url_default ==
    [m_scheme   |-> <<>>,
     m_user     |-> <<>>,
     m_host     |-> <<>>,
     m_port     |-> <<>>,
     m_path     |-> <<>>,
     m_query    |-> <<>>,
     m_fragment |-> <<>>,
     m_url      |-> <<>>,
     m_parse    |-> TRUE,
     m_built    |-> TRUE,
     m_ip_v     |-> -1]

\* Url::Url(const std::string& url_str)
Url_string(url_str) ==
    [Url_default EXCEPT !.m_url = url_str, !.m_parse = FALSE, !.m_built = FALSE]

\* The result of a call: the object afterwards, the value returned, the
\* exception thrown ("none" when it returns), whether the parser ran over
\* m_url, and whether the builder build_url() was invoked.
Result(u, r, e, p, b) ==
    [u |-> u, ret |-> r, err |-> e, parsed |-> p, built |-> b]

\* parse_url() once the parser has run over m_url with result f: populate
\* the fields and mark them fresh, or throw and leave the object alone.
populate(u, f) ==
    IF f.ok
    THEN Result([u EXCEPT !.m_scheme   = f.scheme,
                          !.m_user     = f.user,
                          !.m_host     = f.host,
                          !.m_ip_v     = f.ip_v,
                          !.m_port     = f.port,
                          !.m_path     = f.path,
                          !.m_query    = f.query,
                          !.m_fragment = f.fragment,
                          !.m_parse    = TRUE],
                NoRet, "none", TRUE, FALSE)
    ELSE Result(u, NoRet, "parse_error", TRUE, FALSE)

\* void Url::parse_url() const: nothing to do when the fields are fresh; else
\* run the parser over m_url.
parse_url(u) ==
    IF u.m_parse THEN Result(u, NoRet, "none", FALSE, FALSE)
    ELSE populate(u, Parser(u.m_url))

\* build_url() once the builder has run over the fields with result b:
\* overwrite m_url and mark it fresh, or throw.
store_url(p, b) ==
    IF b.ok
    THEN Result([p.u EXCEPT !.m_url = b.text, !.m_built = TRUE],
                NoRet, "none", p.parsed, TRUE)
    ELSE Result(p.u, NoRet, "build_error", p.parsed, TRUE)

\* build_url() once parse_url() has ended with p.
build_parsed(p) ==
    IF p.err # "none" THEN Result(p.u, NoRet, p.err, p.parsed, TRUE)
    ELSE store_url(p, Builder(p.u))

\* void Url::build_url() const: make the fields fresh, run the builder over
\* them, overwrite m_url and mark it fresh.
build_url(u) == build_parsed(parse_url(u))

\* toString() once build_url() has ended with b: return m_url.
toString_built(b) ==
    IF b.err # "none" THEN b
    ELSE Result(b.u, b.u.m_url, "none", b.parsed, b.built)

\* toString() that calls build_url() whatever m_built says.
toString_rebuilds(u) == toString_built(build_url(u))

\* std::string Url::toString() const
toString(u) ==
    IF ~u.m_built THEN toString_built(build_url(u))
    ELSE Result(u, u.m_url, "none", FALSE, FALSE)

\* parse() that forgets to mark the fields stale.
parse_keeps_fields(u, url_str) ==
    Result([u EXCEPT !.m_url = url_str, !.m_built = TRUE],
           NoRet, "none", FALSE, FALSE)

\* Url& Url::parse(const std::string& url_str)
parse(u, url_str) ==
    Result([u EXCEPT !.m_url = url_str, !.m_built = TRUE, !.m_parse = FALSE],
           NoRet, "none", FALSE, FALSE)

\* Url& Url::operator=(const std::string& url_str)
assign_string(u, url_str) == parse(u, url_str)

\* Every member below begins with parse_url(); X_parsed(p, ...) is the member
\* X once parse_url() has ended with p: its exception propagates, else the
\* rest of the member runs.

scheme_parsed(p) ==
    IF p.err # "none" THEN p
    ELSE Result(p.u, p.u.m_scheme, "none", p.parsed, FALSE)

\* const std::string& Url::scheme() const
scheme(u) == scheme_parsed(parse_url(u))

user_info_parsed(p) ==
    IF p.err # "none" THEN p
    ELSE Result(p.u, p.u.m_user, "none", p.parsed, FALSE)

\* const std::string& Url::user_info() const
user_info(u) == user_info_parsed(parse_url(u))

host_parsed(p) ==
    IF p.err # "none" THEN p
    ELSE Result(p.u, p.u.m_host, "none", p.parsed, FALSE)

\* const std::string& Url::host() const
host(u) == host_parsed(parse_url(u))

ip_version_parsed(p) ==
    IF p.err # "none" THEN p
    ELSE Result(p.u, p.u.m_ip_v, "none", p.parsed, FALSE)

\* std::int8_t Url::ip_version() const
ip_version(u) == ip_version_parsed(parse_url(u))

port_parsed(p) ==
    IF p.err # "none" THEN p
    ELSE Result(p.u, p.u.m_port, "none", p.parsed, FALSE)

\* const std::string& Url::port() const
port(u) == port_parsed(parse_url(u))

path_parsed(p) ==
    IF p.err # "none" THEN p
    ELSE Result(p.u, p.u.m_path, "none", p.parsed, FALSE)

\* const std::string& Url::path() const
path(u) == path_parsed(parse_url(u))

\* query() with the body of set_query(): it sets m_built = false.
query_marks_stale(p) ==
    IF p.err # "none" THEN p
    ELSE Result([p.u EXCEPT !.m_built = FALSE], p.u.m_query, "none",
                p.parsed, FALSE)

query_parsed(p) ==
    IF p.err # "none" THEN p
    ELSE Result(p.u, p.u.m_query, "none", p.parsed, FALSE)

\* const Query& Url::query() const
query(u) == query_parsed(parse_url(u))

fragment_parsed(p) ==
    IF p.err # "none" THEN p
    ELSE Result(p.u, p.u.m_fragment, "none", p.parsed, FALSE)

\* const std::string& Url::fragment() const
fragment(u) == fragment_parsed(parse_url(u))

\* A reference into the object: to the vector m_query (index -1) or to its
\* element index (0-based).
QueryRef == [kind |-> "query", index |-> -1]

KeyValRef(i) == [kind |-> "keyval", index |-> i]

NoRef == [kind |-> "none", index |-> -1]

\* query(i) whose bounds check lets i = size through.
query_i_off_by_one(p, i) ==
    IF p.err # "none" THEN p
    ELSE IF i > Len(p.u.m_query)
         THEN Result(p.u, NoRet, "out_of_range", p.parsed, FALSE)
         ELSE Result(p.u, KeyValRef(i), "none", p.parsed, FALSE)

query_i_parsed(p, i) ==
    IF p.err # "none" THEN p
    ELSE IF i >= Len(p.u.m_query)
         THEN Result(p.u, NoRet, "out_of_range", p.parsed, FALSE)
         ELSE Result(p.u, KeyValRef(i), "none", p.parsed, FALSE)

\* const KeyVal& Url::query(size_t i) const
query_i(u, i) == query_i_parsed(parse_url(u), i)

\* set_query() that clears m_parse where it should clear m_built.
set_query_wrong_flag(p) ==
    IF p.err # "none" THEN p
    ELSE Result([p.u EXCEPT !.m_parse = FALSE], QueryRef, "none",
                p.parsed, FALSE)

set_query_parsed(p) ==
    IF p.err # "none" THEN p
    ELSE Result([p.u EXCEPT !.m_built = FALSE], QueryRef, "none",
                p.parsed, FALSE)

\* Query& Url::set_query()
set_query(u) == set_query_parsed(parse_url(u))

\* set_query(i) that leaves m_built alone.
set_query_i_keeps_raw(p, i) ==
    IF p.err # "none" THEN p
    ELSE IF i >= Len(p.u.m_query)
         THEN Result(p.u, NoRet, "out_of_range", p.parsed, FALSE)
         ELSE Result(p.u, KeyValRef(i), "none", p.parsed, FALSE)

\* set_query(i) that reports a bad index as a parse_error.
set_query_i_parse_error(p, i) ==
    IF p.err # "none" THEN p
    ELSE IF i >= Len(p.u.m_query)
         THEN Result(p.u, NoRet, "parse_error", p.parsed, FALSE)
         ELSE Result([p.u EXCEPT !.m_built = FALSE], KeyValRef(i), "none",
                     p.parsed, FALSE)

\* set_query(i) that sets m_built = false before it checks the index.
set_query_i_marks_first(p, i) ==
    IF p.err # "none" THEN p
    ELSE IF i >= Len(p.u.m_query)
         THEN Result([p.u EXCEPT !.m_built = FALSE], NoRet, "out_of_range",
                     p.parsed, FALSE)
         ELSE Result([p.u EXCEPT !.m_built = FALSE], KeyValRef(i), "none",
                     p.parsed, FALSE)

\* if (i >= m_query.size()) throw std::out_of_range; m_built = false;
\* return m_query[i]
set_query_i_parsed(p, i) ==
    IF p.err # "none" THEN p
    ELSE IF i >= Len(p.u.m_query)
         THEN Result(p.u, NoRet, "out_of_range", p.parsed, FALSE)
         ELSE Result([p.u EXCEPT !.m_built = FALSE], KeyValRef(i), "none",
                     p.parsed, FALSE)

\* KeyVal& Url::set_query(size_t i)
set_query_i(u, i) == set_query_i_parsed(parse_url(u), i)

\* operator== that compares the keys only.
KeyVal_eq_keys(a, b) == a.m_key = b.m_key

\* bool Url::KeyVal::operator==(const KeyVal& q) const
KeyVal_eq(a, b) == a.m_key = b.m_key /\ a.m_val = b.m_val

\* std::vector<KeyVal>::operator== : same size and equal elements.
Query_eq(a, b) ==
    /\ Len(a) = Len(b)
    /\ \A i \in 1..Len(a) : KeyVal_eq(a[i], b[i])

set_query_q_parsed(p, q) ==
    IF p.err # "none" THEN p
    ELSE IF ~Query_eq(q, p.u.m_query)
         THEN Result([p.u EXCEPT !.m_query = q, !.m_built = FALSE],
                     NoRet, "none", p.parsed, FALSE)
         ELSE Result(p.u, NoRet, "none", p.parsed, FALSE)

\* Url& Url::set_query(const Query& q)
set_query_q(u, q) == set_query_q_parsed(parse_url(u), q)

\* An append that puts the entry in front.
add_query_front(p, kv) ==
    IF p.err # "none" THEN p
    ELSE Result([p.u EXCEPT !.m_built = FALSE,
                            !.m_query = <<kv>> \o p.u.m_query],
                NoRet, "none", p.parsed, FALSE)

\* m_built = false; m_query.push_back(kv)
add_query_parsed(p, kv) ==
    IF p.err # "none" THEN p
    ELSE Result([p.u EXCEPT !.m_built = FALSE,
                            !.m_query = Append(p.u.m_query, kv)],
                NoRet, "none", p.parsed, FALSE)

\* Url& Url::add_query(const KeyVal& kv)
add_query_kv(u, kv) == add_query_parsed(parse_url(u), kv)

\* Url& Url::add_query(const std::string& key, const std::string& val)
add_query_key_val(u, key, val) ==
    add_query_parsed(parse_url(u), KeyVal(key, val))

\* add_query(key) that stores the key as the value too.
add_query_key_twice(u, key) == add_query_parsed(parse_url(u), KeyVal(key, key))

\* Url& Url::add_query(const std::string& key): KeyVal(key) leaves m_val empty.
add_query_key(u, key) == add_query_parsed(parse_url(u), KeyVal(key, <<>>))

\* void Url::KeyVal::key(const std::string& k)
KeyVal_key(kv, k) == [kv EXCEPT !.m_key = k]

\* void Url::KeyVal::val(const std::string& v)
KeyVal_val(kv, v) == [kv EXCEPT !.m_val = v]

\***************************************************************************
\* Port setters
\***************************************************************************

\* std::to_string of an unsigned value: its decimal digits.
RECURSIVE to_string(_)

to_string(n) ==
    IF n < 10 THEN <<Chr(Ord["0"] + n)>>
    ELSE Append(to_string(n \div 10), Chr(Ord["0"] + (n % 10)))

\* port(str) once parse_url() has ended with p: write the port and mark the
\* raw string stale.
port_str_parsed(p, str) ==
    IF p.err # "none" THEN p
    ELSE Result([p.u EXCEPT !.m_port = str, !.m_built = FALSE],
                NoRet, "none", p.parsed, FALSE)

\* Url& Url::port(std::string str): validate before commit (digits only, at
\* most 65535; the empty string clears the port), then make the fields fresh
\* and write.
port_str(u, str) ==
    IF ~is_port(str) THEN Result(u, NoRet, "parse_error", FALSE, FALSE)
    ELSE port_str_parsed(parse_url(u), str)

\* Url& Url::port(std::uint16_t num): the parameter is 16 bits wide, so the
\* caller's integer is converted modulo 2^16 before the body runs.
port_num(u, num) == port_str(u, to_string(num % 65536))

\***************************************************************************
\* Copy and move
\***************************************************************************

\* void Url::assign(const Url& url): deep copy of every member of url, the
\* raw string and both flags included.
assign_copy(dst, url) ==
    [dst EXCEPT !.m_scheme   = url.m_scheme,
                !.m_user     = url.m_user,
                !.m_host     = url.m_host,
                !.m_ip_v     = url.m_ip_v,
                !.m_port     = url.m_port,
                !.m_path     = url.m_path,
                !.m_query    = url.m_query,
                !.m_fragment = url.m_fragment,
                !.m_url      = url.m_url,
                !.m_parse    = url.m_parse,
                !.m_built    = url.m_built]

\* void Url::assign(Url&& url): dst takes every member of url, and url is
\* left default-empty.
assign_move(dst, url) ==
    [dst |-> assign_copy(dst, url), src |-> Url_default]

\* The members of an object whose constructor has run only its initialiser
\* list : m_ip_v(-1); the two flags hold whatever the storage held.
Url_uninit(p, b) == [Url_default EXCEPT !.m_parse = p, !.m_built = b]

\* Url::Url(const Url& url)
copy_construct(fresh, url) == [dst |-> assign_copy(fresh, url), src |-> url]

\* Url& Url::operator=(const Url& url)
copy_assign(dst, url) == [dst |-> assign_copy(dst, url), src |-> url]

\* Url::Url(Url&& url)
move_construct(fresh, url) == assign_move(fresh, url)

\* operator=(Url&&) that passes url on without std::move, so that the copying
\* assign is chosen.
move_assign_copies(dst, url) == [dst |-> assign_copy(dst, url), src |-> url]

\* Url& Url::operator=(Url&& url)
move_assign(dst, url) == assign_move(dst, url)

\***************************************************************************
\* State
\***************************************************************************

\* The most parser runs counted for one adopted string.
MaxRuns == 2

VARIABLES
    u,          \* the Url object
    ref,        \* the writable reference the caller still holds
    op,         \* the last call
    arg,        \* its argument
    ret,        \* what it returned
    err,        \* what it threw ("none" when it returned)
    ranParser,  \* the last call ran the parser
    ranBuilder, \* the last call ran the builder
    runs,       \* parser runs since m_url was last handed in by the caller
    parses,     \* those of them that completed
    other       \* a second Url object, the target of copies and moves

vars ==
    <<u, ref, op, arg, ret, err, ranParser, ranBuilder, runs, parses, other>>

Accessors ==
    {"scheme", "user_info", "host", "ip_version", "port", "path", "query",
     "query(i)", "fragment"}

Mutators ==
    {"set_query()", "set_query(i)", "set_query(q)", "add_query(kv)",
     "add_query(key,val)", "add_query(key)"}

Adoptions == {"Url(s)", "parse", "operator=(s)"}

\* The reference the caller holds after a call that returned r: the one just
\* returned by a writable accessor, else the one held before, which stays
\* valid unless it designates an element and the vector was reassigned.
held(name, r) ==
    IF r.err = "none" /\ name \in {"set_query()", "set_query(i)"}
    THEN r.ret
    ELSE IF ref.kind = "keyval" /\ (r.parsed \/ r.u.m_query # u.m_query)
         THEN NoRef
         ELSE ref

\* A call of a member on the object: r is what the member does.
Call(name, a, r) ==
    /\ u' = r.u
    /\ op' = name
    /\ arg' = a
    /\ ret' = r.ret
    /\ err' = r.err
    /\ ranParser' = r.parsed
    /\ ranBuilder' = r.built
    /\ runs' = IF name \in Adoptions THEN 0
               ELSE IF r.parsed /\ runs < MaxRuns THEN runs + 1 ELSE runs
    /\ parses' = IF name \in Adoptions THEN 0
                 ELSE IF r.parsed /\ r.err # "parse_error" /\ parses < MaxRuns
                      THEN parses + 1 ELSE parses
    /\ ref' = held(name, r)
    /\ UNCHANGED other

\* A new object takes the place of the one observed.
Create(name, a, v) ==
    /\ u' = v
    /\ op' = name
    /\ arg' = a
    /\ ret' = NoRet
    /\ err' = "none"
    /\ ranParser' = FALSE
    /\ ranBuilder' = FALSE
    /\ runs' = 0
    /\ parses' = 0
    /\ ref' = NoRef
    /\ UNCHANGED other

\* A write by the caller through the reference it holds; no member runs.
Write(name, a, q) ==
    /\ u' = [u EXCEPT !.m_query = q]
    /\ op' = name
    /\ arg' = a
    /\ ret' = NoRet
    /\ err' = "none"
    /\ ranParser' = FALSE
    /\ ranBuilder' = FALSE
    /\ UNCHANGED <<runs, parses, ref, other>>

Init ==
    /\ u = Url_default
    /\ ref = NoRef
    /\ op = "Url()"
    /\ arg = NoRet
    /\ ret = NoRet
    /\ err = "none"
    /\ ranParser = FALSE
    /\ ranBuilder = FALSE
    /\ runs = 0
    /\ parses = 0
    /\ other = Url_default

\***************************************************************************
\* Actions
\***************************************************************************

Construct == Create("Url()", NoRet, Url_default)

ConstructString == \E s \in RawInputs : Create("Url(s)", s, Url_string(s))

Parse == \E s \in RawInputs : Call("parse", s, parse(u, s))

AssignString == \E s \in RawInputs : Call("operator=(s)", s, assign_string(u, s))

ToStr == Call("toString", NoRet, toString(u))

Scheme == Call("scheme", NoRet, scheme(u))

UserInfo == Call("user_info", NoRet, user_info(u))

Host == Call("host", NoRet, host(u))

IpVersion == Call("ip_version", NoRet, ip_version(u))

Port == Call("port", NoRet, port(u))

Path == Call("path", NoRet, path(u))

Query == Call("query", NoRet, query(u))

QueryI == \E i \in Indices : Call("query(i)", i, query_i(u, i))

Fragment == Call("fragment", NoRet, fragment(u))

SetQuery == Call("set_query()", NoRet, set_query(u))

SetQueryI == \E i \in Indices : Call("set_query(i)", i, set_query_i(u, i))

SetQueryQ == \E q \in QueryInputs : Call("set_query(q)", q, set_query_q(u, q))

\* The appends are offered while the query is shorter than MaxQuery.
CanAppend == Len(parse_url(u).u.m_query) < MaxQuery

AddQueryKv ==
    /\ CanAppend
    /\ \E kv \in KeyVals : Call("add_query(kv)", kv, add_query_kv(u, kv))

AddQueryKeyVal ==
    /\ CanAppend
    /\ \E k \in Keys, v \in Vals :
           Call("add_query(key,val)", KeyVal(k, v), add_query_key_val(u, k, v))

AddQueryKey ==
    /\ CanAppend
    /\ \E k \in Keys : Call("add_query(key)", k, add_query_key(u, k))

\* The caller assigns through the Query& that set_query() returned.
WriteQuery ==
    /\ ref.kind = "query"
    /\ \E q \in QueryInputs : Write("Query& = q", q, q)

\* The caller sets the key through the KeyVal& that set_query(i) returned.
WriteKey ==
    /\ ref.kind = "keyval"
    /\ ref.index < Len(u.m_query)
    /\ \E k \in Keys :
           Write("KeyVal&.key(k)", k,
                 [u.m_query EXCEPT ![ref.index + 1] = KeyVal_key(@, k)])

\* The caller sets the value through the KeyVal& that set_query(i) returned.
WriteVal ==
    /\ ref.kind = "keyval"
    /\ ref.index < Len(u.m_query)
    /\ \E v \in Vals :
           Write("KeyVal&.val(v)", v,
                 [u.m_query EXCEPT ![ref.index + 1] = KeyVal_val(@, v)])

Next ==
    \/ Construct
    \/ ConstructString
    \/ Parse
    \/ AssignString
    \/ ToStr
    \/ Scheme
    \/ UserInfo
    \/ Host
    \/ IpVersion
    \/ Port
    \/ Path
    \/ Query
    \/ QueryI
    \/ Fragment
    \/ SetQuery
    \/ SetQueryI
    \/ SetQueryQ
    \/ AddQueryKv
    \/ AddQueryKeyVal
    \/ AddQueryKey
    \/ WriteQuery
    \/ WriteKey
    \/ WriteVal

Spec == Init /\ [][Next]_vars

\***************************************************************************
\* The port setters, on their own with the operations that show the port
\***************************************************************************

\* The strings handed to port(std::string).
PortStrings ==
    { <<>>, <<"8">>, <<"8", "a">>,
      <<"6", "5", "5", "3", "5">>, <<"6", "5", "5", "3", "6">>,
      <<"7", "0", "0", "0", "0">> }

\* The integers the caller hands to port(std::uint16_t).
PortNumbers == {8, 65535, 65536, 70000}

SetPortStr == \E str \in PortStrings : Call("port(str)", str, port_str(u, str))

SetPortNum == \E num \in PortNumbers : Call("port(num)", num, port_num(u, num))

NextPort ==
    \/ Construct
    \/ ConstructString
    \/ Parse
    \/ ToStr
    \/ Port
    \/ SetPortStr
    \/ SetPortNum

SpecPort == Init /\ [][NextPort]_vars

\***************************************************************************
\* Copy and move between the object and a second one
\***************************************************************************

Copies == {"Url(const Url&)", "operator=(const Url&)"}

Moves == {"Url(Url&&)", "operator=(Url&&)"}

\* The object is copied or moved into the second one: r.dst is the target
\* and r.src the source afterwards.
Transfer(name, r) ==
    /\ other' = r.dst
    /\ u' = r.src
    /\ op' = name
    /\ arg' = NoRet
    /\ ret' = NoRet
    /\ err' = "none"
    /\ ranParser' = FALSE
    /\ ranBuilder' = FALSE
    /\ runs' = IF name \in Moves THEN 0 ELSE runs
    /\ parses' = IF name \in Moves THEN 0 ELSE parses
    /\ ref' = IF name \in Moves THEN NoRef ELSE ref

CopyConstruct ==
    \E p \in BOOLEAN, b \in BOOLEAN :
        Transfer("Url(const Url&)", copy_construct(Url_uninit(p, b), u))

CopyAssign == Transfer("operator=(const Url&)", copy_assign(other, u))

MoveConstruct ==
    \E p \in BOOLEAN, b \in BOOLEAN :
        Transfer("Url(Url&&)", move_construct(Url_uninit(p, b), u))

MoveAssign == Transfer("operator=(Url&&)", move_assign(other, u))

NextCopy ==
    \/ Construct
    \/ ConstructString
    \/ Parse
    \/ ToStr
    \/ Path
    \/ AddQueryKey
    \/ CopyConstruct
    \/ CopyAssign
    \/ MoveConstruct
    \/ MoveAssign

SpecCopy == Init /\ [][NextCopy]_vars

\***************************************************************************
\* Properties
\***************************************************************************

\* C1: the freshness flags m_parse (fields fresh) and m_built (raw fresh) are
\* never both false.
C1_NeverBothStale == u.m_parse \/ u.m_built

\* C2: whenever both freshness flags are true, the raw string and the fields
\* denote the same URL: parsing m_url succeeds and yields exactly the fields
\* held, also after writes through the references set_query() and
\* set_query(i) returned.
C2_RawDenotesFields ==
    (u.m_parse /\ u.m_built) =>
        LET f == Parser(u.m_url)
        IN  /\ f.ok
            /\ f.scheme = u.m_scheme
            /\ f.user = u.m_user
            /\ f.host = u.m_host
            /\ f.ip_v = u.m_ip_v
            /\ f.port = u.m_port
            /\ f.path = u.m_path
            /\ f.query = u.m_query
            /\ f.fragment = u.m_fragment

\* C3: Url() leaves every field empty, the host kind -1, the raw string empty
\* and both flags true; Url(s) leaves raw = s, raw fresh, the fields stale,
\* and runs neither the parser nor the builder.
C3_Creation ==
    /\ op = "Url()" =>
           /\ u.m_scheme = <<>> /\ u.m_user = <<>> /\ u.m_host = <<>>
           /\ u.m_port = <<>> /\ u.m_path = <<>> /\ u.m_query = <<>>
           /\ u.m_fragment = <<>> /\ u.m_ip_v = -1 /\ u.m_url = <<>>
           /\ u.m_parse /\ u.m_built
    /\ op = "Url(s)" =>
           /\ u.m_url = arg
           /\ u.m_built
           /\ ~u.m_parse
           /\ ~ranParser
           /\ ~ranBuilder

\* C4: parse(s) and operator=(s) set raw = s, mark raw fresh and the fields
\* stale, never fail and run neither the parser nor the builder; the field
\* read that follows takes every field from s alone.
C4_AssignFromString ==
    /\ op \in {"parse", "operator=(s)"} =>
           /\ u.m_url = arg
           /\ u.m_built
           /\ ~u.m_parse
           /\ err = "none"
           /\ ~ranParser
           /\ ~ranBuilder
    /\ (op \in Accessors /\ ranParser /\ err = "none") =>
           LET f == Parser(u.m_url)
           IN  /\ u.m_scheme = f.scheme
               /\ u.m_user = f.user
               /\ u.m_host = f.host
               /\ u.m_ip_v = f.ip_v
               /\ u.m_port = f.port
               /\ u.m_path = f.path
               /\ u.m_query = f.query
               /\ u.m_fragment = f.fragment
               /\ (op = "query" => ret = f.query)
               /\ (op = "fragment" => ret = f.fragment)

\* parse("") has acted on an object that still holds a query and a fragment.
C4_Witness ==
    /\ op = "parse"
    /\ arg = <<>>
    /\ u.m_query # <<>>
    /\ u.m_fragment # <<>>

\* C5: toString() calls the builder exactly when raw is stale on entry; when
\* it returns, raw is fresh and is the string returned; on a fresh raw it
\* returns raw unchanged without parsing or building, so a second toString()
\* returns the same string without building.
C5_ToString ==
    [][op' = "toString" =>
          /\ ranBuilder' <=> ~u.m_built
          /\ err' = "none" => (u'.m_built /\ ret' = u'.m_url)
          /\ u.m_built =>
                 /\ err' = "none"
                 /\ ret' = u.m_url
                 /\ u' = u
                 /\ ~ranParser'
          /\ (op = "toString" /\ err = "none") =>
                 (err' = "none" /\ ret' = ret /\ ~ranBuilder')]_vars

\* toString() has built the raw string of an object with a query.
C5_Witness ==
    /\ op = "toString"
    /\ ranBuilder
    /\ err = "none"
    /\ u.m_query # <<>>

C7_StaleOnlyIfChanged ==
    [][(op' = "set_query(i)" /\ err' = "none"
            /\ u'.m_query = parse_url(u).u.m_query) =>
          (u'.m_built = u.m_built /\ u'.m_url = u.m_url)]_vars

\* C7 as amended: set_query(i) with a valid index marks raw stale whatever
\* is written afterwards and leaves the raw string as it is; a write through
\* the reference changes neither.
C7_StaleAlways ==
    [][/\ (op' = "set_query(i)" /\ err' = "none") =>
              /\ arg' < Len(u'.m_query)
              /\ ~u'.m_built
              /\ u'.m_url = u.m_url
       /\ op' \in {"KeyVal&.key(k)", "KeyVal&.val(v)"} =>
              /\ u'.m_built = u.m_built
              /\ u'.m_url = u.m_url]_vars

\* set_query(i) has marked stale a raw string that is the serialization of
\* the fields.
C7_Witness ==
    /\ op = "set_query(i)"
    /\ err = "none"
    /\ ~u.m_built
    /\ Builder(u).ok
    /\ Builder(u).text = u.m_url

\* C8: set_query(q) with q equal, entry by entry, to the current query leaves
\* the query, raw and its freshness alone; otherwise the query becomes q and
\* raw is marked stale.  The fields are fresh afterwards.
C8_BulkSetter ==
    [][(op' = "set_query(q)" /\ err' = "none") =>
          LET cur  == parse_url(u).u.m_query
              q    == arg'
              same == /\ Len(q) = Len(cur)
                      /\ \A i \in 1..Len(q) :
                             /\ q[i].m_key = cur[i].m_key
                             /\ q[i].m_val = cur[i].m_val
          IN  /\ u'.m_parse
              /\ same => /\ u'.m_query = cur
                         /\ u'.m_url = u.m_url
                         /\ u'.m_built = u.m_built
              /\ ~same => /\ u'.m_query = q
                          /\ ~u'.m_built]_vars

\* set_query(q) has found q equal to a non-empty query and left raw fresh.
C8_Witness ==
    /\ op = "set_query(q)"
    /\ err = "none"
    /\ arg # <<>>
    /\ arg = u.m_query
    /\ u.m_built

\* C9: query(i) and set_query(i) return when, and only when, i is below the
\* length of the query, and then return a reference to entry i.
C9_IndexChecked ==
    op \in {"query(i)", "set_query(i)"} =>
        /\ err = "none" <=> (u.m_parse /\ arg < Len(u.m_query))
        /\ err = "none" => ret = KeyValRef(arg)

\* query(i) has refused the index one past the last entry.
C9_Witness ==
    /\ op = "query(i)"
    /\ err = "out_of_range"
    /\ arg = Len(u.m_query)
    /\ arg > 0

\* C10 as stated: every failure is a parse_error or a build_error, a bad
\* query index included.
C10_TwoErrorKinds == err \in {"none", "parse_error", "build_error"}

\* C10 as amended: every failure is a parse_error, a build_error or a
\* std::out_of_range, and a bad index passed to query(i) or set_query(i) is
\* the std::out_of_range.
C10_ThreeErrorKinds ==
    /\ err \in {"none", "parse_error", "build_error", "out_of_range"}
    /\ err = "out_of_range" <=>
           /\ op \in {"query(i)", "set_query(i)"}
           /\ u.m_parse
           /\ arg >= Len(u.m_query)

\* set_query(i) has refused an index on an empty query.
C10_Witness ==
    /\ op = "set_query(i)"
    /\ err = "out_of_range"
    /\ u.m_query = <<>>

\* C11: a port above 65535 is refused and the stored port stays as it was,
\* whether it is handed in as a digit string or as an integer to the integer
\* port setter; the empty string clears the port.
C11_PortBounds ==
    [][/\ (op' = "port(str)" /\ arg' # <<>> /\ AllIn(arg', DIGIT)
              /\ DecVal(arg') > 65535)
           => (err' # "none" /\ u'.m_port = u.m_port)
       /\ (op' = "port(num)" /\ arg' > 65535)
           => (err' # "none" /\ u'.m_port = u.m_port)
       /\ (op' = "port(str)" /\ arg' = <<>> /\ err' = "none")
           => u'.m_port = <<>>]_vars

\* C12: the entry appended by add_query(key) (value absent) is not
\* structurally equal to the entry KeyVal(key, "") with an explicit empty
\* value.
C12_AbsentDistinct ==
    (op = "add_query(key)" /\ err = "none") =>
        ~KeyVal_eq(u.m_query[Len(u.m_query)], KeyVal(arg, <<>>))

\* C12, amended: the entry appended by add_query(key) is the entry
\* KeyVal(key, ""): the two are structurally equal, as is the entry appended
\* by add_query(key, ""), and the builder emits the same text for them.
C12_AbsentIsEmpty ==
    /\ (op = "add_query(key)" /\ err = "none") =>
           /\ Len(u.m_query) > 0
           /\ KeyVal_eq(u.m_query[Len(u.m_query)], KeyVal(arg, <<>>))
           /\ build_token(u.m_query[Len(u.m_query)])
                  = build_token(KeyVal(arg, <<>>))
    /\ (op = "add_query(key,val)" /\ err = "none" /\ arg.m_val = <<>>) =>
           /\ Len(u.m_query) > 0
           /\ KeyVal_eq(u.m_query[Len(u.m_query)], KeyVal(arg.m_key, <<>>))

\* add_query(key) has appended a key-only entry after an entry with a value.
C12_Witness ==
    /\ op = "add_query(key)"
    /\ err = "none"
    /\ Len(u.m_query) = 2
    /\ u.m_query[1].m_val # <<>>
    /\ u.m_query[2].m_val = <<>>

\* C13: a copy (construction or assignment) gives the target the source's
\* fields, raw string and both flags and leaves the source alone; a move
\* gives the target the source's prior state and leaves the source
\* default-empty (both flags true, every field and the raw string empty); no
\* other operation on the object changes the second one.
C13_CopyMove ==
    [][/\ op' \in Copies => (other' = u /\ u' = u)
       /\ op' \in Moves =>
              /\ other' = u
              /\ u'.m_parse /\ u'.m_built
              /\ u'.m_url = <<>>
              /\ u'.m_scheme = <<>> /\ u'.m_user = <<>> /\ u'.m_host = <<>>
              /\ u'.m_port = <<>> /\ u'.m_path = <<>> /\ u'.m_query = <<>>
              /\ u'.m_fragment = <<>>
       /\ op' \notin (Copies \cup Moves) => other' = other]_vars

\* A lazy object with a changed query has been move-assigned: the target
\* holds stale raw text and the entry, the source is empty.
C13_Witness ==
    /\ op = "operator=(Url&&)"
    /\ other.m_parse /\ ~other.m_built
    /\ Len(other.m_query) > 0
    /\ other.m_url # <<>>
    /\ u.m_url = <<>> /\ u.m_query = <<>>

\* C14: every query mutator makes the fields fresh before it modifies
\* anything and marks the raw string stale only after that: when it returns
\* the fields are fresh, when the parse fails m_built is as it was, and on an
\* object with stale fields add_query leaves m_parse true, m_built false, the
\* query parsed from the raw string with the one new entry at its end, and
\* every other field at its parsed value.
C14_ParseThenModify ==
    [][(op' \in Mutators) =>
          /\ err' = "none" => u'.m_parse
          /\ err' = "parse_error" => u'.m_built = u.m_built
          /\ (~u'.m_built /\ u.m_built) => u'.m_parse
          /\ (~u.m_parse /\ err' = "none") =>
                 LET f == Parser(u.m_url)
                     added == IF op' = "add_query(key)"
                              THEN KeyVal(arg', <<>>) ELSE arg'
                 IN  /\ ranParser'
                     /\ f.ok
                     /\ u'.m_url = u.m_url
                     /\ u'.m_scheme = f.scheme /\ u'.m_user = f.user
                     /\ u'.m_host = f.host /\ u'.m_ip_v = f.ip_v
                     /\ u'.m_port = f.port /\ u'.m_path = f.path
                     /\ u'.m_fragment = f.fragment
                     /\ op' \in {"add_query(kv)", "add_query(key,val)",
                                 "add_query(key)"} =>
                            /\ ~u'.m_built
                            /\ u'.m_query = Append(f.query, added)]_vars

\* add_query has parsed a raw string with one query entry and appended a
\* second one.
C14_Witness ==
    /\ op \in {"add_query(kv)", "add_query(key,val)", "add_query(key)"}
    /\ ranParser
    /\ err = "none"
    /\ Len(u.m_query) = 2
    /\ u.m_query[1].m_key = <<"k">>
    /\ u.m_path # <<>>
    /\ u.m_parse /\ ~u.m_built

\* C15: a query mutator that throws (a parse error, or an out-of-range index
\* in set_query(i)) leaves the fields, the raw string and both flags exactly
\* as they were before the call.
C15_FailedMutatorNoEffect ==
    [][(op' \in Mutators /\ err' # "none") => u' = u]_vars

\* C15, amended: a query mutator that throws never changes the raw string or
\* m_built; after a parse error the object is exactly as before; after an
\* out-of-range index in set_query(i) the object is exactly as before when the
\* fields were fresh, and when they were stale the parse has been kept: the
\* fields hold the values parsed from the raw string and m_parse is true.
C15_FailedMutatorKeepsParse ==
    [][(op' \in Mutators /\ err' # "none") =>
          /\ u'.m_url = u.m_url
          /\ u'.m_built = u.m_built
          /\ err' \in {"parse_error", "out_of_range"}
          /\ err' = "parse_error" => u' = u
          /\ err' = "out_of_range" =>
                 /\ op' = "set_query(i)"
                 /\ arg' >= Len(u'.m_query)
                 /\ u.m_parse => u' = u
                 /\ ~u.m_parse =>
                        /\ Parser(u.m_url).ok
                        /\ u' = populate(u, Parser(u.m_url)).u
                        /\ u'.m_parse]_vars

\* set_query(i) has thrown out_of_range after parsing a raw string that has
\* a path and a query.
C15_Witness ==
    /\ op = "set_query(i)"
    /\ err = "out_of_range"
    /\ ranParser
    /\ u.m_parse
    /\ u.m_path # <<>>
    /\ Len(u.m_query) = 1

\* C16: a field accessor never changes the raw string or m_built and never
\* runs the builder; when the fields are fresh it changes nothing and does
\* not parse; when they are stale and it returns, m_parse is true and the
\* fields hold the values parsed from the raw string, so after any accessor
\* that returns the fields are fresh and the Url denotes what it denoted.
C16_AccessorFrame ==
    [][(op' \in Accessors) =>
          /\ u'.m_url = u.m_url
          /\ u'.m_built = u.m_built
          /\ ~ranBuilder'
          /\ u.m_parse => (u' = u /\ ~ranParser')
          /\ err' = "none" => u'.m_parse
          /\ (~u.m_parse /\ err' = "none") =>
                 LET f == Parser(u.m_url)
                 IN  /\ ranParser'
                     /\ f.ok
                     /\ u'.m_scheme = f.scheme /\ u'.m_user = f.user
                     /\ u'.m_host = f.host /\ u'.m_ip_v = f.ip_v
                     /\ u'.m_port = f.port /\ u'.m_path = f.path
                     /\ u'.m_query = f.query
                     /\ u'.m_fragment = f.fragment]_vars

\* query() has parsed an adopted raw string whose query has one entry; the
\* raw string is still fresh.
C16_Witness ==
    /\ op = "query"
    /\ err = "none"
    /\ ranParser
    /\ u.m_parse /\ u.m_built
    /\ Len(u.m_query) = 1
    /\ ret = u.m_query

\* C17: the object constructed from a string s is in the state of a
\* default-constructed object after parse(s) (and after operator=(s)): same
\* raw string, same flags, same fields, and toString() gives the same result
\* or error on both.
C17_Interchangeable ==
    (op = "Url(s)") =>
        /\ u = parse(Url_default, arg).u
        /\ u = assign_string(Url_default, arg).u
        /\ toString(u).ret = toString(parse(Url_default, arg).u).ret
        /\ toString(u).err = toString(parse(Url_default, arg).u).err

====
